---- MODULE Spec2Model ----
(***************************************************************************)
(* Model of the to-do tracker API (src/main.py, src/models.py): the schema *)
(* normalizer notion_to_task, the property builders of add_task and        *)
(* update_task, and the request handlers with the provider they call.      *)
(*                                                                         *)
(* JSON values (Python dict / list / str / int / bool / None) are tagged   *)
(* records, so that dict access, .get, truthiness and the exceptions they  *)
(* raise are computed as Python computes them.                             *)
(***************************************************************************)
EXTENDS Integers, Sequences, FiniteSets, TLC

(***************************************************************************)
(* Bounds                                                                  *)
(***************************************************************************)
MaxListLen == 2      \* longest multi-select list of a raw record
MaxId == 1           \* task ids range over 0..MaxId
MaxPages == 2        \* most pages the provider holds
MaxDescLen == 20     \* longest description add_link is let to write
MaxRequests == 1     \* most requests served in a run

(***************************************************************************)
(* JSON values and the Python operations the code applies to them          *)
(***************************************************************************)
Null == [t |-> "null"]
Str(s) == [t |-> "str", v |-> s]
Num(n) == [t |-> "num", v |-> n]
Bool(b) == [t |-> "bool", v |-> b]
List(s) == [t |-> "list", v |-> s]
Dict(f) == [t |-> "dict", v |-> f]
EmptyDict == Dict(<<>>)

\* the outcome of an expression that raised (KeyError, IndexError, TypeError)
Raise == [t |-> "raise"]

\* bool(v)
Truthy(v) ==
    CASE v.t = "null" -> FALSE
      [] v.t = "str" -> v.v # ""
      [] v.t = "num" -> v.v # 0
      [] v.t = "bool" -> v.v
      [] v.t = "list" -> Len(v.v) > 0
      [] v.t = "dict" -> DOMAIN v.v # {}
      [] OTHER -> FALSE

\* k in d, for a dict d
HasKey(d, k) == d.t = "dict" /\ k \in DOMAIN d.v

\* d[k]: KeyError when the key is absent, TypeError when d is not a dict
Idx(d, k) == IF HasKey(d, k) THEN d.v[k] ELSE Raise

\* l[0]: IndexError on the empty list, TypeError when l is not a list
Idx0(l) == IF l.t = "list" /\ Len(l.v) > 0 THEN l.v[1] ELSE Raise

\* d.get(k): None when the key is absent, AttributeError when d is not a dict
Get(d, k) == IF d.t # "dict" THEN Raise ELSE IF k \in DOMAIN d.v THEN d.v[k] ELSE Null

\* a if c else b, where evaluating c may raise
IfElse(c, a, b) == IF c = Raise THEN Raise ELSE IF Truthy(c) THEN a ELSE b

\* v is not None
IsNotNone(v) == IF v = Raise THEN Raise ELSE Bool(v # Null)

(***************************************************************************)
(* models.Task                                                             *)
(***************************************************************************)
TaskFields == {"task_id", "task_name", "status", "assignee", "due_date", "priority",
               "task_type", "description", "attach_file", "past_due", "updated_at",
               "effort_level", "summary"}

\* the provider's name of the property that holds each field
PropKey ==
    [task_id |-> "Task id", task_name |-> "Task name", status |-> "Status",
     assignee |-> "Assignee", due_date |-> "Due date", priority |-> "Priority",
     task_type |-> "Task type", description |-> "Description",
     attach_file |-> "Attach file", past_due |-> "Past due",
     effort_level |-> "Effort level", summary |-> "Summary"]

PropKeys == {PropKey[f] : f \in DOMAIN PropKey}

(***************************************************************************)
(* notion_to_task: every part is the value the code computes, or Raise     *)
(***************************************************************************)
past_dueOf(props) ==
    IF ~HasKey(props, "Past due") THEN Null
    ELSE LET pd == props.v["Past due"]
             ty == Idx(pd, "type")
         IN IF ty = Raise THEN Raise
            ELSE IF ty = Str("formula") THEN Get(Idx(pd, "formula"), "boolean")
            ELSE IF HasKey(pd, "checkbox") THEN pd.v["checkbox"]
            ELSE Null

\* task_idOf with the default of the write handlers' page search (None)
task_idOf_NoneDefault(props) ==
    IF ~HasKey(props, "Task id") THEN Null
    ELSE LET p == props.v["Task id"]
         IN IfElse(IsNotNone(Get(p, "number")), Idx(p, "number"),
                   IfElse(Get(p, "unique_id"), Idx(Idx(p, "unique_id"), "number"), Null))

task_idOf(props) ==
    IF ~HasKey(props, "Task id") THEN Num(0)
    ELSE LET p == props.v["Task id"]
         IN IfElse(IsNotNone(Get(p, "number")), Idx(p, "number"),
                   IfElse(Get(p, "unique_id"), Idx(Idx(p, "unique_id"), "number"), Num(0)))

\* statusOf that knows the "select" tag only
statusOf_SelectOnly(props) ==
    IF ~HasKey(props, "Status") THEN Null
    ELSE LET p == props.v["Status"]
         IN IfElse(Get(p, "select"), Idx(Idx(p, "select"), "name"), Null)

statusOf(props) ==
    IF ~HasKey(props, "Status") THEN Null
    ELSE LET p == props.v["Status"]
         IN IfElse(Get(p, "select"), Idx(Idx(p, "select"), "name"),
                   IfElse(Get(p, "status"), Idx(Idx(p, "status"), "name"), Null))

\* task_typeOf that takes the last element of a multi-select list
task_typeOf_LastElement(props) ==
    IF ~HasKey(props, "Task type") THEN Null
    ELSE LET p == props.v["Task type"]
             l == Idx(p, "multi_select")
         IN IfElse(Get(p, "select"), Idx(Idx(p, "select"), "name"),
                   IfElse(Get(p, "multi_select"), Idx(l.v[Len(l.v)], "name"), Null))

task_typeOf(props) ==
    IF ~HasKey(props, "Task type") THEN Null
    ELSE LET p == props.v["Task type"]
         IN IfElse(Get(p, "select"), Idx(Idx(p, "select"), "name"),
                   IfElse(Get(p, "multi_select"),
                          Idx(Idx0(Idx(p, "multi_select")), "name"), Null))

attach_fileOf(props) ==
    IF ~HasKey(props, "Attach file") THEN Null
    ELSE LET files == Idx(props.v["Attach file"], "files")
         IN IfElse(files,
                   LET file_obj == Idx0(files)
                   IN IF HasKey(file_obj, "file") THEN Idx(Idx(file_obj, "file"), "url")
                      ELSE IF HasKey(file_obj, "external")
                           THEN Idx(Idx(file_obj, "external"), "url")
                      ELSE Null,
                   Null)

task_nameOf(props) ==
    LET title == Idx(Idx(props, "Task name"), "title")
    IN IfElse(title, Idx(Idx0(title), "plain_text"), Str(""))

\* props[key][kind][0][leaf] if key in props and props[key][kind] else None
FirstOf(props, key, kind, leaf) ==
    IF ~HasKey(props, key) THEN Null
    ELSE LET l == Idx(props.v[key], kind)
         IN IfElse(l, Idx(Idx0(l), leaf), Null)

\* props[key][kind][leaf] if key in props and props[key][kind] else None
InnerOf(props, key, kind, leaf) ==
    IF ~HasKey(props, key) THEN Null
    ELSE LET d == Idx(props.v[key], kind)
         IN IfElse(d, Idx(d, leaf), Null)

\* the value notion_to_task computes for each field of the Task
FieldsOf(pg) ==
    LET props == Idx(pg, "properties")
    IN [task_id |-> task_idOf(props),
        task_name |-> task_nameOf(props),
        status |-> statusOf(props),
        assignee |-> FirstOf(props, "Assignee", "people", "name"),
        due_date |-> InnerOf(props, "Due date", "date", "start"),
        priority |-> InnerOf(props, "Priority", "select", "name"),
        task_type |-> task_typeOf(props),
        description |-> FirstOf(props, "Description", "rich_text", "plain_text"),
        attach_file |-> attach_fileOf(props),
        past_due |-> past_dueOf(props),
        updated_at |-> Get(pg, "last_edited_time"),
        effort_level |-> InnerOf(props, "Effort level", "select", "name"),
        summary |-> FirstOf(props, "Summary", "rich_text", "plain_text")]

\* the Task, or Raise when page["properties"] or any field raised
notion_to_task(pg) ==
    LET r == FieldsOf(pg)
    IN IF Idx(pg, "properties") = Raise \/ \E f \in DOMAIN r : r[f] = Raise THEN Raise ELSE r

(***************************************************************************)
(* Property builders of add_task and update_task (write format)            *)
(***************************************************************************)
AssigneeId == "6aaf53e2-c3b4-4fc6-93b3-c5d41e3f65a0"

Text(s) == List(<<Dict([text |-> Dict([content |-> s])])>>)

\* the value each builder assigns to a property key
WriteValue(task) ==
    [f \in DOMAIN PropKey |->
        CASE f = "task_id" -> Dict([number |-> task.task_id])
          [] f = "task_name" -> Dict([title |-> Text(task.task_name)])
          [] f = "status" -> Dict([status |-> Dict([name |-> task.status])])
          [] f = "assignee" -> Dict([people |-> List(<<Dict([id |-> Str(AssigneeId)])>>)])
          [] f = "due_date" -> Dict([date |-> Dict([start |-> task.due_date])])
          [] f = "priority" -> Dict([select |-> Dict([name |-> task.priority])])
          [] f = "task_type" ->
                Dict([multi_select |-> List(<<Dict([name |-> task.task_type])>>)])
          [] f = "description" -> Dict([rich_text |-> Text(task.description)])
          [] f = "attach_file" ->
                Dict([files |-> List(<<Dict([type |-> Str("external"),
                                             name |-> Str("attachment"),
                                             external |-> Dict([url |-> task.attach_file])])>>)])
          [] f = "past_due" -> Dict([checkbox |-> task.past_due])
          [] f = "effort_level" -> Dict([select |-> Dict([name |-> task.effort_level])])
          [] f = "summary" -> Dict([rich_text |-> Text(task.summary)])]

\* the property map built from the fields fs of task
PropsOf(task, fs) ==
    Dict([k \in {PropKey[f] : f \in fs} |->
            WriteValue(task)[CHOOSE f \in fs : PropKey[f] = k]])

\* add_task that emits the title only when it is not empty, as update_task does
add_task_fields_TitleWhenSet(task) ==
    {f \in {"task_id", "past_due"} : task[f] # Null}
    \cup {f \in DOMAIN PropKey \ {"task_id", "past_due"} : Truthy(task[f])}

\* add_task: the title always, Task id and Past due when not None, the rest when truthy
add_task_fields(task) ==
    {"task_name"}
    \cup {f \in {"task_id", "past_due"} : task[f] # Null}
    \cup {f \in DOMAIN PropKey \ {"task_id", "task_name", "past_due"} : Truthy(task[f])}

add_task_properties(task) == PropsOf(task, add_task_fields(task))

\* update_task that emits every field, the absent ones with an empty value
update_task_fields_All(task) == DOMAIN PropKey \ {"task_id"}

\* update_task: Past due when not None, every other field (the title too) when truthy;
\* Task id is never part of an update
update_task_fields(task) ==
    {f \in {"past_due"} : task[f] # Null}
    \cup {f \in DOMAIN PropKey \ {"task_id", "past_due"} : Truthy(task[f])}

update_props(task) == PropsOf(task, update_task_fields(task))

(***************************************************************************)
(* Raw provider records (read format) the normalizer is applied to         *)
(***************************************************************************)
StatusNames == {"Done", "Not started"}
TypeNames == {"Bug", "Urgent"}
AssigneeName == "Jeevanantham Govindaraju"

Typed(ty, val) == Dict((("type" :> Str(ty)) @@ (ty :> val)))

Named(n) == Dict([name |-> Str(n)])

Plain(s) == Dict([plain_text |-> Str(s), text |-> Dict([content |-> Str(s)])])

\* the lists of at most n elements of S
SeqsUpTo(S, n) == UNION {[1..m -> S] : m \in 0..n}

\* the encodings of each property a record may carry
ReadValues ==
    [k \in PropKeys |->
        CASE k = "Task id" ->
                {Typed("number", Num(i)) : i \in 0..MaxId}
                \cup {Typed("number", Null)}
                \cup {Typed("unique_id", Dict([number |-> Num(i), prefix |-> Null])) :
                        i \in 1..MaxId}
          [] k = "Task name" -> {Typed("title", List(<<>>)), Typed("title", List(<<Plain("a")>>))}
          [] k = "Status" ->
                {Typed("select", Null), Typed("status", Null)}
                \cup {Typed("select", Named(n)) : n \in StatusNames}
                \cup {Typed("status", Named(n)) : n \in StatusNames}
          [] k = "Task type" ->
                {Typed("select", Null)}
                \cup {Typed("select", Named(n)) : n \in TypeNames}
                \cup {Typed("multi_select", List([i \in DOMAIN l |-> Named(l[i])])) :
                        l \in SeqsUpTo(TypeNames, MaxListLen)}
          [] k = "Attach file" ->
                {Typed("files", List(<<>>)),
                 Typed("files", List(<<Dict([type |-> Str("file"), name |-> Str("f"),
                                             file |-> Dict([url |-> Str("https://f")])])>>)),
                 Typed("files", List(<<Dict([type |-> Str("external"), name |-> Str("e"),
                                             external |-> Dict([url |-> Str("https://e")])])>>))}
          [] k = "Past due" ->
                {Typed("formula", Dict([type |-> Str("boolean"), boolean |-> b])) :
                    b \in {Null, Bool(TRUE), Bool(FALSE)}}
                \cup {Typed("checkbox", Bool(b)) : b \in BOOLEAN}
          [] k = "Assignee" ->
                {Typed("people", List(<<>>)),
                 Typed("people", List(<<Dict([id |-> Str(AssigneeId),
                                              name |-> Str(AssigneeName)])>>))}
          [] k = "Due date" ->
                {Typed("date", Null), Typed("date", Dict([start |-> Str("2025-01-31")]))}
          [] k = "Priority" -> {Typed("select", Null), Typed("select", Named("High"))}
          [] k = "Effort level" -> {Typed("select", Null), Typed("select", Named("Small"))}
          [] k = "Description" ->
                {Typed("rich_text", List(<<>>)), Typed("rich_text", List(<<Plain("text")>>))}
          [] k = "Summary" ->
                {Typed("rich_text", List(<<>>)), Typed("rich_text", List(<<Plain("sum")>>))}]

\* a record that carries a value for every property
BaseProps ==
    [k \in PropKeys |->
        CASE k = "Task id" -> Typed("number", Num(1))
          [] k = "Task name" -> Typed("title", List(<<Plain("a")>>))
          [] k = "Status" -> Typed("status", Named("Not started"))
          [] k = "Task type" -> Typed("multi_select", List(<<Named("Bug")>>))
          [] k = "Attach file" ->
                Typed("files", List(<<Dict([type |-> Str("external"), name |-> Str("attachment"),
                                            external |-> Dict([url |-> Str("https://e")])])>>))
          [] k = "Past due" -> Typed("checkbox", Bool(FALSE))
          [] k = "Assignee" ->
                Typed("people", List(<<Dict([id |-> Str(AssigneeId),
                                             name |-> Str(AssigneeName)])>>))
          [] k = "Due date" -> Typed("date", Dict([start |-> Str("2025-01-31")]))
          [] k = "Priority" -> Typed("select", Named("High"))
          [] k = "Effort level" -> Typed("select", Named("Small"))
          [] k = "Description" -> Typed("rich_text", List(<<Plain("text")>>))
          [] k = "Summary" -> Typed("rich_text", List(<<Plain("sum")>>))]

EditedAt == "2025-01-01T00:00:00.000Z"

PageOf(props) == Dict([properties |-> Dict(props), last_edited_time |-> Str(EditedAt)])

\* the base record with property vk encoded as a and only the keys K present
RawPage(K, vk, a) == PageOf([k \in K |-> IF k = vk THEN a ELSE BaseProps[k]])

(***************************************************************************)
(* Tasks the builders are applied to                                       *)
(***************************************************************************)
OptionalFields == TaskFields \ {"task_id", "task_name"}

\* a set value of each optional field
SetValue ==
    [f \in OptionalFields |->
        CASE f = "status" -> Str("Done")
          [] f = "assignee" -> Str(AssigneeName)
          [] f = "due_date" -> Str("2025-01-31")
          [] f = "priority" -> Str("High")
          [] f = "task_type" -> Str("Bug")
          [] f = "description" -> Str("text")
          [] f = "attach_file" -> Str("https://e")
          [] f = "past_due" -> Bool(TRUE)
          [] f = "updated_at" -> Str(EditedAt)
          [] f = "effort_level" -> Str("Small")
          [] f = "summary" -> Str("sum")]

\* Task(task_id=i, task_name=n) with the fields S set, past_due to pd, and the
\* other optional fields None or, for e = "", the empty string
TaskWith(i, n, S, pd, e) ==
    [f \in TaskFields |->
        CASE f = "task_id" -> Num(i)
          [] f = "task_name" -> Str(n)
          [] f = "past_due" -> IF f \in S THEN Bool(pd) ELSE Null
          [] OTHER -> IF f \in S THEN SetValue[f] ELSE e]

(***************************************************************************)
(* State                                                                   *)
(***************************************************************************)
VARIABLES
    stage,      \* position of the mapping run: "record", "task", "built", "normalized", "roundtrip"
    page,       \* the raw record handed to notion_to_task
    body,       \* the Task handed to the builder
    result,     \* what notion_to_task returned: a Task, or Raise
    API_KEY,    \* PUBLIC_WRITE_KEY of the process: a string or None
    notion,     \* whether the provider client was created
    pages,      \* the pages of the provider's database
    pc,         \* position of the request being served
    req,        \* the request being served
    resp,       \* the response to it
    call,       \* the write call made to the provider while serving it
    miss,       \* whether a lookup made while serving it found no task
    served      \* how many requests were accepted

mapVars == <<stage, page, body, result>>
apiVars == <<API_KEY, notion, pages, pc, req, resp, call, miss, served>>
vars == <<stage, page, body, result, API_KEY, notion, pages, pc, req, resp, call, miss, served>>

(***************************************************************************)
(* The mapping core applied to bounded inputs                              *)
(***************************************************************************)
ApiIdle ==
    /\ API_KEY = Null
    /\ notion = FALSE
    /\ pages = <<>>
    /\ pc = "idle"
    /\ req = Null
    /\ resp = Null
    /\ call = Null
    /\ miss = FALSE
    /\ served = 0

MapInit ==
    /\ \/ /\ stage = "record"
          /\ \E K \in SUBSET PropKeys, vk \in PropKeys :
                \E a \in ReadValues[vk] : page = RawPage(K, vk, a)
          /\ body = Null
       \/ /\ stage = "task"
          /\ page = Null
          /\ \E i \in 0..MaxId, n \in {"", "a"}, S \in SUBSET OptionalFields,
                pd \in BOOLEAN, e \in {Null, Str("")} : body = TaskWith(i, n, S, pd, e)
    /\ result = Null
    /\ ApiIdle

\* notion_to_task on a raw provider record
Normalize ==
    /\ stage = "record"
    /\ result' = notion_to_task(page)
    /\ stage' = "normalized"
    /\ UNCHANGED <<page, body>>
    /\ UNCHANGED apiVars

\* the property map add_task builds for a Task, as the properties of a page
Build ==
    /\ stage = "task"
    /\ page' = Dict([properties |-> add_task_properties(body)])
    /\ stage' = "built"
    /\ UNCHANGED <<body, result>>
    /\ UNCHANGED apiVars

\* notion_to_task on the page the builder produced
NormalizeBuilt ==
    /\ stage = "built"
    /\ result' = notion_to_task(page)
    /\ stage' = "roundtrip"
    /\ UNCHANGED <<page, body>>
    /\ UNCHANGED apiVars

MapNext == Normalize \/ Build \/ NormalizeBuilt

MapSpec == MapInit /\ [][MapNext]_vars

(***************************************************************************)
(* The provider: a database of pages, queried and written by the handlers  *)
(***************************************************************************)
\* the stored (read format) value of a property written as w
StoreValue(w) ==
    LET kind == CHOOSE k \in DOMAIN w.v : TRUE
        val == w.v[kind]
        content(e) == e.v["text"].v["content"]
    IN CASE kind \in {"title", "rich_text"} ->
                Typed(kind, List(SelectSeq([i \in DOMAIN val.v |->
                                    Dict([plain_text |-> content(val.v[i]),
                                          text |-> val.v[i].v["text"]])],
                                  LAMBDA e : e.v["plain_text"] # Str(""))))
         [] kind = "people" ->
                Typed(kind, List([i \in DOMAIN val.v |->
                                    Dict([id |-> val.v[i].v["id"],
                                          name |-> Str(AssigneeName)])]))
         [] OTHER -> Typed(kind, val)

\* properties after a write of the property map w: only the keys of w change
Merge(old, w) ==
    [k \in DOMAIN old \cup DOMAIN w.v |->
        IF k \in DOMAIN w.v THEN StoreValue(w.v[k]) ELSE old[k]]

ProviderPage(id, props) ==
    Dict([id |-> Num(id), properties |-> Dict(props), last_edited_time |-> Str(EditedAt)])

\* notion.databases.query(...)["results"]
IsPage(p) == p # Null
Results == SelectSeq(pages, IsPage)

\* notion.pages.update(page_id, properties)
PagesUpdate(id, w) ==
    [pages EXCEPT ![id] = ProviderPage(id, Merge(pages[id].v["properties"].v, w))]

\* notion.pages.create(parent, properties): the new page
FreeSlot == CHOOSE i \in 1..MaxPages : pages[i] = Null /\ \A j \in 1..(i - 1) : pages[j] # Null
NewPage(w) == ProviderPage(FreeSlot, Merge(<<>>, w))

(***************************************************************************)
(* Request handlers                                                        *)
(***************************************************************************)
HTTPException(status_code, detail) == [status |-> status_code, detail |-> detail]
Ok(content) == [status |-> 200, content |-> content]

\* require_key
require_key(key) ==
    IF ~Truthy(API_KEY) \/ key # API_KEY THEN HTTPException(401, "invalid api key") ELSE Ok(Null)

\* except Exception as e: raise HTTPException(500, msg): an HTTPException
\* raised inside the try block is an Exception and is caught as well
Except(outcome, msg) == IF outcome.status = 200 THEN outcome ELSE HTTPException(500, msg)

\* the exception handler of the app for anything that is not an HTTPException
Unhandled == HTTPException(500, "internal_error")

\* get_all_tasks
get_all_tasks(results) ==
    LET tasks == [i \in DOMAIN results |-> notion_to_task(results[i])]
    IN IF ~notion \/ \E i \in DOMAIN tasks : tasks[i] = Raise
       THEN HTTPException(500, "Failed to fetch tasks from Notion")
       ELSE Ok(tasks)

\* get_task: the first task with the id, else 404
get_task(results, task_id) ==
    LET all == get_all_tasks(results)
    IN IF all.status # 200 THEN all
       ELSE LET tasks == all.content
                hits == {i \in DOMAIN tasks : tasks[i].task_id = Num(task_id)}
            IN IF hits = {} THEN HTTPException(404, "Task not found")
               ELSE Ok(tasks[CHOOSE i \in hits : \A j \in hits : i <= j])

\* the id the write handlers read off a page: None when the page carries none
page_task_id(pg) ==
    LET props == Idx(pg, "properties")
    IN IF props = Raise THEN Raise
       ELSE IF ~HasKey(props, "Task id") THEN Null
       ELSE LET p == props.v["Task id"]
            IN IfElse(IsNotNone(Get(p, "number")), Idx(p, "number"),
                      IfElse(Get(p, "unique_id"), Idx(Idx(p, "unique_id"), "number"), Null))

\* for page in pages: ... if page_task_id == task_id: the index of the first
\* page that matches, 0 when the loop ends without one, -1 when it raised
FindPage(results, task_id) ==
    LET stops == {i \in DOMAIN results :
                    page_task_id(results[i]) \in {Raise, Num(task_id)}}
    IN IF stops = {} THEN 0
       ELSE LET i == CHOOSE i \in stops : \A j \in stops : i <= j
            IN IF page_task_id(results[i]) = Raise THEN -1 ELSE i

Request(endpoint, key, task_id, task, arg) ==
    [endpoint |-> endpoint, key |-> key, task_id |-> task_id, task |-> task, arg |-> arg]

\* the server takes up the request r
Accept(r) ==
    /\ pc = "idle"
    /\ served < MaxRequests
    /\ served' = served + 1
    /\ req' = r

\* the request is answered with r; m tells whether a lookup found no task
Respond(r, m) ==
    /\ resp' = r
    /\ miss' = m
    /\ pc' = "idle"

\* nothing was written for this request
NoWrite ==
    /\ call' = Null
    /\ UNCHANGED pages

\* the lookup every write handler starts with finds a page
Found(task_id) == notion /\ FindPage(Results, task_id) > 0

\* the first page whose id matches
FoundPage(task_id) == Results[FindPage(Results, task_id)]

\* the lookup finds no page: 404 when the loop ends without a match; without
\* a client, or when reading a page raised, the exception is unhandled
NotFound(task_id) ==
    /\ IF ~notion \/ FindPage(Results, task_id) = -1
       THEN Respond(Unhandled, FALSE)
       ELSE Respond(HTTPException(404, "Task not found"), TRUE)
    /\ NoWrite

FailMsg ==
    [update_task |-> "Failed to update task in Notion",
     mark_task_status |-> "Failed to update status in Notion",
     add_comment |-> "Failed to add comment in Notion",
     add_link |-> "Failed to add link in Notion"]

\* the write call c of a handler's try block: the provider performs it, and
\* the handler goes on to read the task back, or the call fails
Write(c) ==
    /\ call' = c
    /\ \E ok \in BOOLEAN :
        IF ok
        THEN /\ pages' = IF c.op = "pages.update"
                         THEN PagesUpdate(c.page_id.v, c.properties)
                         ELSE pages
             /\ pc' = "readback"
             /\ resp' = Null
             /\ miss' = FALSE
        ELSE /\ UNCHANGED pages
             /\ Respond(HTTPException(500, FailMsg[req'.endpoint]), FALSE)

\* GET /tasks/{task_id}
GetTask(task_id) ==
    /\ Accept(Request("get_task", Null, task_id, Null, Null))
    /\ LET r == get_task(Results, task_id)
       IN Respond(r, r.status = 404)
    /\ NoWrite
    /\ UNCHANGED <<API_KEY, notion>>
    /\ UNCHANGED mapVars

\* POST /tasks
AddTask(key, task) ==
    /\ Accept(Request("add_task", key, 0, task, Null))
    /\ IF require_key(key).status # 200 THEN Respond(require_key(key), FALSE) /\ NoWrite
       ELSE IF ~notion
       THEN Respond(HTTPException(503, "Notion integration not configured"), FALSE) /\ NoWrite
       ELSE /\ \E i \in 1..MaxPages : pages[i] = Null
            /\ call' = [op |-> "pages.create", page_id |-> Null,
                        properties |-> add_task_properties(task)]
            /\ \E ok \in BOOLEAN :
                IF ok
                THEN LET new_page == NewPage(add_task_properties(task))
                         result_ == notion_to_task(new_page)
                     IN /\ pages' = [pages EXCEPT ![FreeSlot] = new_page]
                        /\ Respond(Except(IF result_ = Raise THEN Unhandled ELSE Ok(result_),
                                          "Failed to create task in Notion"), FALSE)
                ELSE /\ UNCHANGED pages
                     /\ Respond(HTTPException(500, "Failed to create task in Notion"), FALSE)
    /\ UNCHANGED <<API_KEY, notion>>
    /\ UNCHANGED mapVars

\* PUT /tasks/{task_id}, up to the provider write
UpdateTask(key, task_id, task) ==
    /\ Accept(Request("update_task", key, task_id, task, Null))
    /\ IF require_key(key).status # 200 THEN Respond(require_key(key), FALSE) /\ NoWrite
       ELSE IF ~Found(task_id) THEN NotFound(task_id)
       ELSE IF ~Truthy(update_props(task))
       THEN /\ Respond(Except(HTTPException(400, "No valid fields provided for update."),
                              FailMsg.update_task), FALSE)
            /\ NoWrite
       ELSE Write([op |-> "pages.update", page_id |-> FoundPage(task_id).v["id"],
                   properties |-> update_props(task)])
    /\ UNCHANGED <<API_KEY, notion>>
    /\ UNCHANGED mapVars

\* PATCH /tasks/{task_id}/status, up to the provider write
MarkTaskStatus(key, task_id, status) ==
    /\ Accept(Request("mark_task_status", key, task_id, Null, Str(status)))
    /\ IF ~Found(task_id) THEN NotFound(task_id)
       ELSE Write([op |-> "pages.update", page_id |-> FoundPage(task_id).v["id"],
                   properties |-> Dict([Status |-> Dict([status |-> Named(status)])])])
    /\ UNCHANGED <<API_KEY, notion>>
    /\ UNCHANGED mapVars

\* PATCH /tasks/{task_id}/comment, up to the provider write
AddComment(key, task_id, comment) ==
    /\ Accept(Request("add_comment", key, task_id, Null, Str(comment)))
    /\ IF require_key(key).status # 200 THEN Respond(require_key(key), FALSE) /\ NoWrite
       ELSE IF ~Found(task_id) THEN NotFound(task_id)
       ELSE Write([op |-> "comments.create", page_id |-> FoundPage(task_id).v["id"],
                   properties |-> Dict([rich_text |-> Text(Str(comment))])])
    /\ UNCHANGED <<API_KEY, notion>>
    /\ UNCHANGED mapVars

\* PATCH /tasks/{task_id}/link, up to the provider write
AddLink(key, task_id, link) ==
    /\ Accept(Request("add_link", key, task_id, Null, Str(link)))
    /\ IF require_key(key).status # 200 THEN Respond(require_key(key), FALSE) /\ NoWrite
       ELSE IF ~Found(task_id) THEN NotFound(task_id)
       ELSE LET props == FoundPage(task_id).v["properties"]
                found == FirstOf(props, "Description", "rich_text", "plain_text")
                description == IF found = Null THEN Str("") ELSE found
            IN IF description = Raise
               THEN Respond(HTTPException(500, FailMsg.add_link), FALSE) /\ NoWrite
               ELSE LET new_description == description.v \o "\nLink: " \o link
                    IN /\ Len(new_description) <= MaxDescLen
                       /\ Write([op |-> "pages.update",
                                 page_id |-> FoundPage(task_id).v["id"],
                                 properties |->
                                    Dict([Description |->
                                        Dict([rich_text |-> Text(Str(new_description))])])])
    /\ UNCHANGED <<API_KEY, notion>>
    /\ UNCHANGED mapVars

\* return get_task(task_id), inside the try block of the write handler
ReadBack ==
    /\ pc = "readback"
    /\ LET r == get_task(Results, req.task_id)
       IN Respond(Except(r, FailMsg[req.endpoint]), r.status = 404)
    /\ UNCHANGED <<API_KEY, notion, pages, req, call, served>>
    /\ UNCHANGED mapVars

\* a page is archived at the provider by another client of the database
ProviderArchive(i) ==
    /\ notion
    /\ pages[i] # Null
    /\ pages' = [pages EXCEPT ![i] = Null]
    /\ UNCHANGED <<API_KEY, notion, pc, req, resp, call, miss, served>>
    /\ UNCHANGED mapVars

(***************************************************************************)
(* The API serving requests against the provider                           *)
(***************************************************************************)
Keys == {Null, Str("secret"), Str("wrong")}

TitleProps == ("Task name" :> Typed("title", List(<<Plain("a")>>)))

\* the pages the database may hold at the start: one without a Task id, one
\* with a unique_id, and one with a number and every other property
InitProps ==
    {TitleProps,
     TitleProps @@ ("Task id" :> Typed("unique_id", Dict([number |-> Num(1), prefix |-> Null]))),
     BaseProps}

\* the Tasks the requests carry: nothing set, and every field set
NewTasks(i) ==
    {TaskWith(i, "", {}, FALSE, Null), TaskWith(i, "a", OptionalFields, FALSE, Null)}

\* and on update also: empty strings only, and only the status set
Bodies(i) ==
    NewTasks(i) \cup {TaskWith(i, "", {}, FALSE, Str("")), TaskWith(i, "", {"status"}, FALSE, Null)}

Init ==
    /\ stage = "off"
    /\ page = Null
    /\ body = Null
    /\ result = Null
    /\ API_KEY \in {Null, Str("secret")}
    /\ notion \in BOOLEAN
    /\ \E ps \in [1..MaxPages -> InitProps \cup {<<>>}] :
            pages = [i \in 1..MaxPages |->
                        IF ps[i] = <<>> \/ ~notion THEN Null ELSE ProviderPage(i, ps[i])]
    /\ pc = "idle"
    /\ req = Null
    /\ resp = Null
    /\ call = Null
    /\ miss = FALSE
    /\ served = 0

Next ==
    \/ \E task_id \in 0..MaxId : GetTask(task_id)
    \/ \E key \in Keys, i \in 0..MaxId : \E task \in NewTasks(i) : AddTask(key, task)
    \/ \E key \in Keys, task_id \in 0..MaxId : \E task \in Bodies(task_id) :
            UpdateTask(key, task_id, task)
    \/ \E key \in Keys, task_id \in 0..MaxId : MarkTaskStatus(key, task_id, "Done")
    \/ \E key \in Keys, task_id \in 0..MaxId : AddComment(key, task_id, "note")
    \/ \E key \in Keys, task_id \in 0..MaxId : AddLink(key, task_id, "https://l")
    \/ ReadBack
    \/ \E i \in 1..MaxPages : ProviderArchive(i)

Spec == Init /\ [][Next]_vars

(***************************************************************************)
(* Properties of the mapping core (checked under MapSpec)                  *)
(***************************************************************************)
\* the properties of the record in page
Props == page.v["properties"]

\* a field of a Task has a present value: not None and not the empty string
Present(v) == v \notin {Null, Str("")}

\* what notion_to_task gives for a field whose property key is absent
Default == [f \in DOMAIN PropKey |->
                CASE f = "task_id" -> Num(0) [] f = "task_name" -> Str("") [] OTHER -> Null]

\* the record pg without any property but k
OnlyKey(pg, k) ==
    Dict([properties |-> Dict([x \in DOMAIN pg.v["properties"].v \cap {k} |->
                                    pg.v["properties"].v[x]])])

\* C1: for a raw record with any subset of the property keys absent,
\* notion_to_task returns a Task without raising, every absent field is null
\* (task_id 0, task_name ""), and every present field has the value its own
\* property gives, whichever other keys are absent.
C1_AbsentKeysNeverRaise ==
    stage = "normalized" =>
        /\ result # Raise
        /\ \A f \in DOMAIN PropKey :
            IF HasKey(Props, PropKey[f])
            THEN result[f] = FieldsOf(OnlyKey(page, PropKey[f]))[f]
            ELSE result[f] = Default[f]

\* C2: round trip: notion_to_task of the property map add_task builds for a
\* Task returns a Task in which every field that was set has its original value.
C2_RoundTrip ==
    stage = "roundtrip" =>
        /\ result # Raise
        /\ \A f \in DOMAIN PropKey : body[f] # Null => result[f] = body[f]

\* C6: in every Task notion_to_task produces, task_name is a string (never
\* null), and task_id is the record's number, else the number of its
\* unique_id, else 0 (also when the Task id key is absent).
C6_NameAndIdDefaults ==
    (stage = "normalized" /\ result # Raise) =>
        LET tid == IF HasKey(Props, "Task id") THEN Props.v["Task id"] ELSE EmptyDict
            number == Get(tid, "number")
            unique_id == Get(tid, "unique_id")
            title == Props.v["Task name"].v["title"].v
        IN /\ result.task_name.t = "str"
           /\ title = <<>> => result.task_name = Str("")
           /\ result.task_id = IF number # Null THEN number
                               ELSE IF unique_id # Null THEN unique_id.v["number"]
                               ELSE Num(0)

\* the record has no title text and no Task id key: task_name "" and task_id 0
C6_Witness ==
    /\ stage = "normalized"
    /\ result # Raise
    /\ ~HasKey(Props, "Task id")
    /\ Props.v["Task name"].v["title"].v = <<>>
    /\ result.task_name = Str("")
    /\ result.task_id = Num(0)

\* C7: the property map add_task builds always has the "Task name" title key,
\* also for an empty task_name, and has the key of any other field only when
\* that field has a present value.
C7_CreateAlwaysHasTitle ==
    stage = "built" =>
        /\ HasKey(Props, "Task name")
        /\ Props.v["Task name"] = Dict([title |-> Text(body.task_name)])
        /\ \A f \in DOMAIN PropKey \ {"task_name"} :
                HasKey(Props, PropKey[f]) => Present(body[f])

\* a Task with an empty name and no status: the title is there, Status is not
C7_Witness ==
    /\ stage = "built"
    /\ body.task_name = Str("")
    /\ body.status = Null
    /\ body.summary = Str("sum")
    /\ HasKey(Props, "Task name")
    /\ ~HasKey(Props, "Status")
    /\ HasKey(Props, "Summary")

WriteEndpoints == {"add_task", "update_task", "mark_task_status", "add_comment", "add_link"}

\* the value page i stores for property k, None when it has none
StoredAt(ps, i, k) ==
    IF ps[i] # Null /\ HasKey(ps[i].v["properties"], k)
    THEN ps[i].v["properties"].v[k]
    ELSE Null

\* C3: a request to a write endpoint whose x-api-key is missing or differs
\* from the configured key (or with no key configured) is answered 401 and
\* causes no write call to the provider.
C3_WritesRequireKey ==
    (req # Null /\ req.endpoint \in WriteEndpoints /\ require_key(req.key).status = 401) =>
        /\ resp # Null
        /\ resp.status = 401
        /\ call = Null

\* C4 as stated: the property map of PUT /tasks/{id} has the key of a field
\* if and only if the submitted Task has a present value for it, for every
\* field of the Task that has a property.
C4_KeyIffPresentEveryField ==
    (call # Null /\ req.endpoint = "update_task") =>
        \A f \in DOMAIN PropKey :
            HasKey(call.properties, PropKey[f]) <=> Present(req.task[f])

\* the property map of an update follows the submitted Task
C4_UpdateKeys ==
    (call # Null /\ req.endpoint = "update_task") =>
        /\ ~HasKey(call.properties, "Task id")
        /\ \A f \in DOMAIN PropKey \ {"task_id"} :
            /\ HasKey(call.properties, PropKey[f]) <=> Present(req.task[f])
            /\ HasKey(call.properties, PropKey[f]) =>
                    call.properties.v[PropKey[f]] = WriteValue(req.task)[f]

\* the provider write of an update leaves alone what the request did not set
C4_UpdateFrame ==
    (pc = "idle" /\ pc' = "readback" /\ req'.endpoint = "update_task") =>
        \A i \in 1..MaxPages :
            /\ pages[i] = Null <=> pages'[i] = Null
            /\ \A f \in DOMAIN PropKey :
                (f = "task_id" \/ ~Present(req'.task[f])) =>
                    StoredAt(pages', i, PropKey[f]) = StoredAt(pages, i, PropKey[f])

\* C4 (amended): on PUT /tasks/{id} the property map has the key of a field
\* other than task_id if and only if the submitted Task has a present value
\* for it, and never the key of task_id; no key carries an empty value, and
\* every provider-side field the request did not set is left unchanged.
C4_PartialUpdate == [](C4_UpdateKeys) /\ [][C4_UpdateFrame]_vars

\* an update that sets the status of the page with every property and leaves
\* its description, which the request did not set, as it was
C4_Witness ==
    /\ pc = "readback"
    /\ req.endpoint = "update_task"
    /\ req.task.status = Str("Done")
    /\ req.task.description = Null
    /\ call.op = "pages.update"
    /\ DOMAIN call.properties.v = {"Status"}
    /\ StoredAt(pages, call.page_id.v, "Status") = Typed("status", Named("Done"))
    /\ StoredAt(pages, call.page_id.v, "Description") = BaseProps["Description"]

\* C5: a lookup by task id that finds no matching task is answered 404, the
\* read-back get_task after the provider write included.
C5_NotFoundIs404 ==
    (pc = "idle" /\ miss) => resp.status = 404

\* C10: PUT /tasks/{id} for an existing task with a Task in which no field has
\* a present value is answered 400 and makes no pages.update call.
C10_EmptyUpdateIs400 ==
    (/\ pc = "idle"
     /\ req # Null
     /\ req.endpoint = "update_task"
     /\ require_key(req.key).status = 200
     /\ Found(req.task_id)
     /\ \A f \in DOMAIN PropKey \ {"task_id"} : ~Present(req.task[f])) =>
        /\ resp.status = 400
        /\ call = Null

\* the page GET /tasks/{id} answers with: the index of the first page whose
\* task has the id, 0 when get_task answers 404 or 500
ReadIndex(task_id) ==
    LET hits == {i \in DOMAIN Results : notion_to_task(Results[i]) # Raise
                                        /\ notion_to_task(Results[i]).task_id = Num(task_id)}
    IN IF get_task(Results, task_id).status # 200 THEN 0
       ELSE CHOOSE i \in hits : \A j \in hits : i <= j

\* C11: for every provider state and every id (0 included), GET /tasks/{id}
\* finds a task exactly when the page search of PUT /tasks/{id} and of the
\* PATCH endpoints finds a page, and both select the same (first) page.
C11_SameResolution ==
    notion =>
        \A task_id \in 0..MaxId :
            /\ get_task(Results, task_id).status = 200 <=> FindPage(Results, task_id) > 0
            /\ ReadIndex(task_id) = FindPage(Results, task_id)

====
